---- MODULE Spec2Model ----
(***************************************************************************)
(* Showdown (cmdrrobin/showdown): an SSH scrum-poker server.  One Bubble   *)
(* Tea program per SSH session, all of them sharing the global gameState   *)
(* (players map, revealed flag, masterConn) behind state.mu, and the       *)
(* admission counters connectionCount / connectionsByIP.                   *)
(*                                                                         *)
(* A connection is one goroutine that runs the wish middleware chain.      *)
(* wish.WithMiddleware runs the last middleware first, so a session goes   *)
(*   sessionCloseMiddleware -> logging -> bubbletea(pokerHandler)          *)
(*     -> sessionTimeoutMiddleware -> connectionLimitMiddleware            *)
(* and then unwinds into the tail of sessionCloseMiddleware.               *)
(*                                                                         *)
(* Critical sections under state.mu are one action each.  The code that    *)
(* touches gameState without the lock (the Scrum Master's quit) is split   *)
(* at each shared access, so that it interleaves with everything else.     *)
(*                                                                         *)
(* Spec follows three sessions through the views and the registry.         *)
(* SpecLimit follows the admission counters under load.                    *)
(***************************************************************************)
EXTENDS Integers, FiniteSets, Sequences, TLC

\* ---------------------------------------------------------------- bounds
\* The sessions followed one by one: three clients, each connecting once.
Conns == {1, 2, 3}

\* Countdowns one Scrum Master program starts.
MaxTimers == 2

\* The longest run of one character in a name handed to
\* validatePlayerName.
MaxRun == 21

\* The longest list of points calculateStatistics is called on.
MaxVotes == 4

\* Participants that register besides the sessions followed one by one.
MaxCrowd == 16

\* ------------------------------------------------------ program constants
maxConnections == 100
maxConnectionsPerIP == 10
maxPlayers == 15
minNameLength == 2
maxNameLength == 20

\* A nil ssh.Session.
Nil == 0

\* An ssh.Session value that a racing plain assignment has left half
\* written: the type word of one store and the data word of another.
Torn == -1

\* Names a participant can type in the name-entry text input ("" = empty).
Names == {"alice", "admin"}
NameInputs == Names \cup {""}

\* The characters of a name of NameInputs, one string per character.
Spelling(name) ==
    CASE name = "alice" -> <<"a", "l", "i", "c", "e">>
      [] name = "admin" -> <<"a", "d", "m", "i", "n">>
      [] OTHER -> <<>>

\* Values of the point list a participant can have selected (a subset of
\* pointOptions, enough to tell a numeric token from the "?" token).
pointOptions == {"3", "?"}

\* Origin address of a connection (s.RemoteAddr() without the port).
Origins == {"ip1", "ip2"}
RemoteAddr(c) == IF c % 2 = 1 THEN "ip1" ELSE "ip2"

\* What checkAuthorizedKey(s) can return for a connection: connection 1 is
\* the Scrum Master's client and presents an authorized key, connection 2
\* owns one and may present it or join as a participant, every other
\* connection has none.
Keys(c) == IF c = 1 THEN {TRUE} ELSE IF c = 2 THEN BOOLEAN ELSE {FALSE}

\* Messages a connection is shown.
ErrEmpty == "name cannot be empty"
ErrTaken == "name already taken"
ErrMaster == "Scrum Master is already connected"
ErrCapacity == "Server at capacity"
ErrPerIP == "Too many connections from your IP address"

VARIABLES
    players,          \* state.players: name -> playerState
    revealed,         \* state.revealed
    masterConn,       \* state.masterConn (Nil or a connection)
    pc,               \* where each connection's goroutine is
    cred,             \* checkAuthorizedKey(s) of the connection
    pname,            \* nameInputView's submitted name / playerView.name
    sel,              \* playerView.Update's selectedValue
    msg,              \* last error/denial text shown to the connection
    closeCalls,       \* number of s.Close() calls on the session
    started,          \* timers started by the master program so far
    pending,          \* started timers whose timerExpiredMsg is still to come
    cleared,          \* pending timers started before a clear / disconnect-all
    connectionCount,  \* connectionCount (atomic.Int32)
    connectionsByIP,  \* connectionsByIP: origin -> count
    others,           \* sessions not followed one by one, inside the limit
    othersByIP,       \* those of them that come from an origin of Origins
    nameArg,          \* the argument of a validatePlayerName call
    nameErr,          \* what that call returned
    votes,            \* the argument of a calculateStatistics call
    stats,            \* what that call returned
    mu,               \* state.mu: who holds it, writing and reading
    lastOp            \* the last operation applied to gameState

vars == <<players, revealed, masterConn, pc, cred, pname, sel, msg,
          closeCalls, started, pending, cleared, connectionCount,
          connectionsByIP, others, othersByIP, nameArg, nameErr, votes,
          stats, mu, lastOp>>

registry == <<players, revealed, masterConn>>
locals == <<cred, pname, sel, msg>>
timers == <<started, pending, cleared>>
admission == <<connectionCount, connectionsByIP, others, othersByIP>>
validation == <<nameArg, nameErr>>
statistics == <<votes, stats>>
extras == <<validation, statistics, mu>>

\* &playerState{session: session}: empty points, not selected.
NewPlayerState(c) == [points |-> "", selected |-> FALSE, session |-> c]

EmptyPlayers == [n \in {} |-> NewPlayerState(Nil)]

\* The state of the process when main starts serving, with the name that
\* validatePlayerName and the list of points that calculateStatistics are
\* going to be called on.
InitWith(name, list) ==
    /\ players = EmptyPlayers
    /\ revealed = FALSE
    /\ masterConn = Nil
    /\ pc = [c \in Conns |-> "idle"]
    /\ cred = [c \in Conns |-> FALSE]
    /\ pname = [c \in Conns |-> ""]
    /\ sel = [c \in Conns |-> ""]
    /\ msg = [c \in Conns |-> ""]
    /\ closeCalls = [c \in Conns |-> 0]
    /\ started = [c \in Conns |-> 0]
    /\ pending = [c \in Conns |-> {}]
    /\ cleared = [c \in Conns |-> {}]
    /\ connectionCount = 0
    /\ connectionsByIP = [o \in Origins |-> 0]
    /\ others = 0
    /\ othersByIP = [o \in Origins |-> 0]
    /\ nameArg = name
    /\ nameErr = "none"
    /\ votes = list
    /\ stats = <<>>
    /\ mu = [writer |-> Nil, readers |-> {}]
    /\ lastOp = "none"

Init == InitWith(<<>>, <<>>)

\* ------------------------------------------------------ validatePlayerName
\* A name is a sequence of characters (runes).  A printable ASCII
\* character is the one-character string; the others go by a name.
LowerLetters ==
    <<"a", "b", "c", "d", "e", "f", "g", "h", "i", "j", "k", "l", "m",
      "n", "o", "p", "q", "r", "s", "t", "u", "v", "w", "x", "y", "z">>
UpperLetters ==
    <<"A", "B", "C", "D", "E", "F", "G", "H", "I", "J", "K", "L", "M",
      "N", "O", "P", "Q", "R", "S", "T", "U", "V", "W", "X", "Y", "Z">>
Digits == {"0", "1", "2", "3", "4", "5", "6", "7", "8", "9"}

Range(s) == {s[i] : i \in 1 .. Len(s)}

\* len(name) counts bytes: the UTF-8 length of a character.
RuneLen(r) == IF r \in {"NBSP", "E-ACUTE"} THEN 2 ELSE 1

\* unicode.IsSpace, as strings.TrimSpace uses it.
IsSpace(r) == r \in {" ", "TAB", "LF", "CR", "NBSP"}

\* unicode.IsControl
IsControl(r) == r \in {"TAB", "LF", "CR", "ESC"}

\* strings.TrimSpace: leading and trailing white space removed.
RECURSIVE TrimLeft(_)
TrimLeft(s) ==
    IF s # <<>> /\ IsSpace(Head(s)) THEN TrimLeft(Tail(s)) ELSE s

RECURSIVE TrimRight(_)
TrimRight(s) ==
    IF s # <<>> /\ IsSpace(s[Len(s)])
    THEN TrimRight(SubSeq(s, 1, Len(s) - 1))
    ELSE s

TrimSpace(s) == TrimRight(TrimLeft(s))

\* len(name)
RECURSIVE ByteLen(_)
ByteLen(s) == IF s = <<>> THEN 0 ELSE RuneLen(Head(s)) + ByteLen(Tail(s))

\* validNameRegex.MatchString(name), for ^[a-zA-Z0-9 _-]+$ : one character
\* or more, each of the class, from the start of the text to its end.
MatchString(s) ==
    /\ Len(s) >= 1
    /\ \A i \in 1 .. Len(s) :
          s[i] \in Range(LowerLetters) \cup Range(UpperLetters) \cup Digits
                   \cup {" ", "_", "-"}

\* (validatePlayerName comparing the name as it was typed.)
ToLowerSkipped(s) == s

\* strings.ToLower
ToLower(s) ==
    [i \in 1 .. Len(s) |->
        IF \E k \in 1 .. Len(UpperLetters) : UpperLetters[k] = s[i]
        THEN LowerLetters[CHOOSE k \in 1 .. Len(UpperLetters) :
                              UpperLetters[k] = s[i]]
        ELSE s[i]]

reservedNames ==
    { <<"m", "a", "s", "t", "e", "r">>, <<"a", "d", "m", "i", "n">>,
      <<"s", "y", "s", "t", "e", "m">>, <<"s", "e", "r", "v", "e", "r">>,
      <<"s", "c", "r", "u", "m">>, <<"p", "o", "k", "e", "r">> }

\* What validatePlayerName returns: nil, or the error of the first check
\* that fails.
NameOk == "nil"
ErrTooShort == "name must be at least 2 characters"
ErrTooLong == "name must be at most 20 characters"
ErrInvalidChars == "name contains invalid characters"
ErrControlChars == "name contains control characters"
ErrReserved == "name is reserved"

ValidatePlayerName(name) ==
    LET trimmed == TrimSpace(name) IN
    IF ByteLen(trimmed) < minNameLength THEN ErrTooShort
    ELSE IF ByteLen(trimmed) > maxNameLength THEN ErrTooLong
    ELSE IF ~MatchString(trimmed) THEN ErrInvalidChars
    ELSE IF \E i \in 1 .. Len(trimmed) : IsControl(trimmed[i])
         THEN ErrControlChars
    ELSE IF ToLower(trimmed) \in reservedNames THEN ErrReserved
    ELSE NameOk

\* One call of validatePlayerName.
ValidateName ==
    /\ nameErr = "none"
    /\ nameErr' = ValidatePlayerName(nameArg)
    /\ UNCHANGED <<registry, pc, locals, closeCalls, timers, admission,
                   nameArg, statistics, mu, lastOp>>

\* The names the calls are made on: a run of one character or a few
\* characters of several kinds, a reserved word in some spelling, each with
\* and without white space around it.
Run(r, n) == [i \in 1 .. n |-> r]

Capitalized(s) ==
    [i \in 1 .. Len(s) |->
        IF i = 1
        THEN UpperLetters[CHOOSE k \in 1 .. Len(LowerLetters) :
                              LowerLetters[k] = s[i]]
        ELSE s[i]]

AllCaps(s) ==
    [i \in 1 .. Len(s) |->
        UpperLetters[CHOOSE k \in 1 .. Len(LowerLetters) :
                         LowerLetters[k] = s[i]]]

NameCores ==
    {Run(r, n) : r \in {"a", "Z", "7", "-", " ", "!", "E-ACUTE"},
                 n \in 0 .. MaxRun}
    \cup reservedNames
    \cup {Capitalized(w) : w \in reservedNames}
    \cup {AllCaps(w) : w \in reservedNames}
    \cup {w \o <<"s">> : w \in reservedNames}
    \cup {<<"x">> \o AllCaps(w) : w \in reservedNames}
    \cup { <<"a", " ", "b">>, <<"a", "TAB", "b">>, <<"a", "ESC", "b">>,
           <<"a", "NBSP", "b">>, <<"a", "_", "b", "-", "9">>,
           <<"a", "!">>, <<"a", "LF">>, <<"E-ACUTE", "a">>,
           <<"a", "d", "m", " ", "i", "n">> }

NamePads == { <<>>, <<" ">>, <<"LF", "TAB">>, <<"NBSP">> }

NameSamples ==
    {l \o core \o r : l \in NamePads, core \in NameCores, r \in NamePads}

InitName == \E name \in NameSamples : InitWith(name, <<>>)

NextName == ValidateName

SpecName == InitName /\ [][NextName]_vars

\* ----------------------------------------------------- calculateStatistics
\* The point values a list handed to calculateStatistics is made of: values
\* of pointOptions (player.go), the "?" among them, and "1.0", another
\* spelling of 1.
StatTokens == {"0.5", "1", "1.0", "2", "3", "5", "8", "?"}

\* strconv.ParseFloat(p, 64): <<num, err>>.  Every number of StatTokens is
\* a multiple of one half and float64 holds it exactly; num is written in
\* quarters, the unit in which the sums and the means of two of them are
\* whole numbers.
ParseFloat(p) ==
    CASE p = "0.5" -> <<2, "nil">>
      [] p = "1"   -> <<4, "nil">>
      [] p = "1.0" -> <<4, "nil">>
      [] p = "2"   -> <<8, "nil">>
      [] p = "3"   -> <<12, "nil">>
      [] p = "5"   -> <<20, "nil">>
      [] p = "8"   -> <<32, "nil">>
      [] OTHER     -> <<0, "invalid syntax">>

\* (The first loop appending what ParseFloat returned, error or not.)
RECURSIVE NumericPointsUnchecked(_)
NumericPointsUnchecked(points) ==
    IF points = <<>> THEN <<>>
    ELSE LET front == NumericPointsUnchecked(SubSeq(points, 1, Len(points) - 1))
             p == points[Len(points)]
         IN  Append(front, ParseFloat(p)[1])

\* The first loop, numericPoints: the values of the points that ParseFloat
\* parses without error, in the order of the list.
RECURSIVE NumericPoints(_)
NumericPoints(points) ==
    IF points = <<>> THEN <<>>
    ELSE LET front == NumericPoints(SubSeq(points, 1, Len(points) - 1))
             p == points[Len(points)]
         IN  IF ParseFloat(p)[2] = "nil"
             THEN Append(front, ParseFloat(p)[1])
             ELSE front

NoDistribution == [p \in {} |-> 0]

\* (The first loop marking a point as seen instead of counting it.)
RECURSIVE DistributionSeen(_)
DistributionSeen(points) ==
    IF points = <<>> THEN NoDistribution
    ELSE LET front == DistributionSeen(SubSeq(points, 1, Len(points) - 1))
             p == points[Len(points)]
         IN  [q \in DOMAIN front \cup {p} |-> 1]

\* The first loop, distribution[p]++: a missing key counts from zero.
RECURSIVE Distribution(_)
Distribution(points) ==
    IF points = <<>> THEN NoDistribution
    ELSE LET front == Distribution(SubSeq(points, 1, Len(points) - 1))
             p == points[Len(points)]
         IN  [q \in DOMAIN front \cup {p} |->
                 (IF q \in DOMAIN front THEN front[q] ELSE 0)
                 + (IF q = p THEN 1 ELSE 0)]

\* sum := 0.0; for ... { sum += num }.
RECURSIVE SumOf(_)
SumOf(nums) ==
    IF nums = <<>> THEN 0
    ELSE SumOf(SubSeq(nums, 1, Len(nums) - 1)) + nums[Len(nums)]

RECURSIVE GCD(_, _)
GCD(a, b) == IF b = 0 THEN a ELSE GCD(b, a % b)

\* sum / float64(len(numericPoints)), sum in quarters: the quotient as the
\* fraction <<numerator, denominator>> in lowest terms.  The float64 the
\* code gets is that fraction correctly rounded, so two quotients are the
\* same float64 when they are the same fraction.
Quotient(sum, n) ==
    LET g == GCD(sum, 4 * n) IN <<sum \div g, (4 * n) \div g>>

\* var average float64.
ZeroAverage == <<0, 1>>

\* (numericPoints left in the order of the list.)
SortSkipped(nums) == nums

\* sort.Float64s(numericPoints): ascending.
RECURSIVE SortFloat64s(_)
SortFloat64s(nums) ==
    IF nums = <<>> THEN <<>>
    ELSE LET front == SortFloat64s(SubSeq(nums, 1, Len(nums) - 1))
             x == nums[Len(nums)]
             k == Cardinality({i \in 1 .. Len(front) : front[i] <= x})
         IN  SubSeq(front, 1, k) \o <<x>> \o SubSeq(front, k + 1, Len(front))

\* (The element at mid whatever the length.)
MiddleUpper(sorted) == sorted[(Len(sorted) \div 2) + 1]

\* mid := len(numericPoints) / 2 and the value that is formatted:
\* (numericPoints[mid-1] + numericPoints[mid]) / 2 for an even length,
\* numericPoints[mid] for an odd one (Go counts from 0, sequences from 1).
Middle(sorted) ==
    LET mid == Len(sorted) \div 2 IN
    IF Len(sorted) % 2 = 0
    THEN (sorted[mid] + sorted[mid + 1]) \div 2
    ELSE sorted[mid + 1]

\* fmt.Sprintf("%.1f", x), x in quarters: the quarters and three quarters
\* are exact binary fractions half way between two tenths, which strconv
\* rounds to the even digit (0.25 -> "0.2", 0.75 -> "0.8").
Sprintf1f(x) ==
    LET tenth == CASE x % 4 = 0 -> 0
                   [] x % 4 = 1 -> 2
                   [] x % 4 = 2 -> 5
                   [] x % 4 = 3 -> 8
    IN  ToString(x \div 4) \o "." \o ToString(tenth)

\* calculateStatistics(points): <<average, median, distribution>>.
CalculateStatistics(points) ==
    LET numericPoints == NumericPoints(points)
        distribution == Distribution(points)
        average == IF Len(numericPoints) > 0
                   THEN Quotient(SumOf(numericPoints), Len(numericPoints))
                   ELSE ZeroAverage
        median == IF Len(numericPoints) > 0
                  THEN Sprintf1f(Middle(SortFloat64s(numericPoints)))
                  ELSE "N/A"
    IN  <<average, median, distribution>>

\* One call of calculateStatistics.
Calculate ==
    /\ stats = <<>>
    /\ stats' = CalculateStatistics(votes)
    /\ UNCHANGED <<registry, pc, locals, closeCalls, timers, admission,
                   validation, votes, mu, lastOp>>

\* The lists the calls are made on.
VoteLists == UNION {[1 .. n -> StatTokens] : n \in 0 .. MaxVotes}

InitStats == \E list \in VoteLists : InitWith(<<>>, list)

NextStats == Calculate

SpecStats == InitStats /\ [][NextStats]_vars

\* ------------------------------------------------------------ pokerHandler
\* (pokerHandler without its nil check: every key holder takes the slot.)
ClaimGrantedUnchecked(c) == TRUE

\* The facilitator branch of pokerHandler: under state.mu, the slot is
\* taken when it is free.
ClaimGranted(c) == masterConn = Nil

\* pokerHandler: a session with an authorized key becomes the Scrum Master
\* when the slot is free; otherwise wish.Fatalln tells it so and closes it,
\* and the nil model makes the bubbletea middleware skip the program.
\* Every other session gets the name-entry view.
PokerHandler(c, key) ==
    /\ pc[c] = "idle"
    /\ cred' = [cred EXCEPT ![c] = key]
    /\ IF key
       THEN IF ClaimGranted(c)
            THEN /\ masterConn' = c
                 /\ pc' = [pc EXCEPT ![c] = "master"]
                 /\ lastOp' = "claim"
                 /\ UNCHANGED <<msg, closeCalls>>
            ELSE /\ msg' = [msg EXCEPT ![c] = ErrMaster]
                 /\ closeCalls' = [closeCalls EXCEPT ![c] = @ + 1]
                 /\ pc' = [pc EXCEPT ![c] = "ended"]
                 /\ UNCHANGED <<masterConn, lastOp>>
       ELSE /\ pc' = [pc EXCEPT ![c] = "name"]
            /\ UNCHANGED <<masterConn, msg, closeCalls, lastOp>>
    /\ UNCHANGED <<players, revealed, pname, sel, timers, admission,
                   extras>>

\* ----------------------------------------------------------- map helpers
\* state.players[name] = ps
Put(ps, name, st) ==
    [n \in DOMAIN ps \cup {name} |-> IF n = name THEN st ELSE ps[n]]

\* (A delete that leaves an empty map when it does not find the key.)
DeleteOrReset(ps, name) ==
    IF name \in DOMAIN ps
    THEN [n \in DOMAIN ps \ {name} |-> ps[n]]
    ELSE [n \in {} |-> ps[n]]

\* delete(state.players, name): nothing happens when the key is absent.
Delete(ps, name) == [n \in DOMAIN ps \ {name} |-> ps[n]]

\* The sessions held by the entries of a players map.
Sessions(ps) == {ps[n].session : n \in DOMAIN ps}

\* The Bubble Tea program of connection c is over: its model (the view with
\* its fields) and the commands it started are gone with it; a timer
\* message that arrives later is delivered to nobody.
ProgramOver(c) ==
    /\ pc' = [pc EXCEPT ![c] = "ended"]
    /\ pname' = [pname EXCEPT ![c] = ""]
    /\ sel' = [sel EXCEPT ![c] = ""]
    /\ started' = [started EXCEPT ![c] = 0]
    /\ pending' = [pending EXCEPT ![c] = {}]
    /\ cleared' = [cleared EXCEPT ![c] = {}]

\* ----------------------------------------------------------- name entry
\* nameInputView.Update, KeyEnter: the presence check made under RLock.
NameTaken(name) == name \in DOMAIN players

\* nameInputView.Update, KeyEnter: an empty name and a name found in the
\* map under RLock are refused and the view stays; any other name goes on
\* to initPlayerView, which runs after the read lock is released.
NameEnter(c, name) ==
    /\ pc[c] = "name"
    /\ IF name = ""
       THEN /\ msg' = [msg EXCEPT ![c] = ErrEmpty]
            /\ UNCHANGED <<pc, pname>>
       ELSE IF NameTaken(name)
       THEN /\ msg' = [msg EXCEPT ![c] = ErrTaken]
            /\ UNCHANGED <<pc, pname>>
       ELSE /\ pname' = [pname EXCEPT ![c] = name]
            /\ pc' = [pc EXCEPT ![c] = "init"]
            /\ UNCHANGED msg
    /\ UNCHANGED <<registry, cred, sel, closeCalls, timers, admission,
                   extras,
                   lastOp>>

\* initPlayerView: under Lock, store a fresh playerState under the name.
RegisterPlayer(ps, name, c) == Put(ps, name, NewPlayerState(c))

InitPlayerView(c) ==
    /\ pc[c] = "init"
    /\ players' = RegisterPlayer(players, pname[c], c)
    /\ pc' = [pc EXCEPT ![c] = "player"]
    /\ msg' = [msg EXCEPT ![c] = ""]
    /\ lastOp' = "register"
    /\ UNCHANGED <<revealed, masterConn, cred, pname, sel, closeCalls,
                   timers, admission, extras>>

\* nameInputView.Update, KeyCtrlC: tea.Quit without registering.
NameCtrlC(c) ==
    /\ pc[c] = "name"
    /\ ProgramOver(c)
    /\ UNCHANGED <<registry, cred, msg, closeCalls, admission, extras,
                   lastOp>>

\* ----------------------------------------------------------- player view
\* playerView.Update, "enter": revealed is read under RLock at the top of
\* Update; with it true nothing else happens.  With it false the handler
\* goes on (pc "enter") to take the write lock.
PlayerEnter(c, v) ==
    /\ pc[c] = "player"
    /\ IF revealed
       THEN UNCHANGED <<pc, sel>>
       ELSE /\ pc' = [pc EXCEPT ![c] = "enter"]
            /\ sel' = [sel EXCEPT ![c] = v]
    /\ UNCHANGED <<registry, cred, pname, msg, closeCalls, timers, admission,
                   extras,
                   lastOp>>

\* (An "enter" that stores the vote under the name whether or not the
\* name is still in the map.)
CastVoteRecreating(ps, name, v) ==
    [n \in DOMAIN ps \cup {name} |->
        IF n = name
        THEN [points |-> v, selected |-> TRUE,
              session |-> IF n \in DOMAIN ps THEN ps[n].session ELSE Nil]
        ELSE ps[n]]

\* The write-locked part of "enter": player.points = selectedValue and
\* player.selected = true, when the entry exists.
CastVote(ps, name, v) ==
    IF name \in DOMAIN ps
    THEN [ps EXCEPT ![name].points = v, ![name].selected = TRUE]
    ELSE ps

\* (A vote that reveals the round as it is stored.)
PlayerVoteRevealing(c) ==
    /\ pc[c] = "enter"
    /\ players' = CastVote(players, pname[c], sel[c])
    /\ revealed' = TRUE
    /\ lastOp' = IF pname[c] \in DOMAIN players THEN "vote" ELSE lastOp
    /\ pc' = [pc EXCEPT ![c] = "player"]
    /\ sel' = [sel EXCEPT ![c] = ""]
    /\ UNCHANGED <<masterConn, cred, pname, msg, closeCalls, timers,
                   admission, extras>>

PlayerVote(c) ==
    /\ pc[c] = "enter"
    /\ players' = CastVote(players, pname[c], sel[c])
    /\ lastOp' = IF pname[c] \in DOMAIN players THEN "vote" ELSE lastOp
    /\ pc' = [pc EXCEPT ![c] = "player"]
    /\ sel' = [sel EXCEPT ![c] = ""]
    /\ UNCHANGED <<revealed, masterConn, cred, pname, msg, closeCalls,
                   timers, admission, extras>>

\* playerView.Update, "q"/"esc"/"ctrl+c": delete the entry stored under
\* p.name under Lock, then tea.Quit.
PlayerQuit(c) ==
    /\ pc[c] = "player"
    /\ players' = Delete(players, pname[c])
    /\ lastOp' = IF pname[c] \in DOMAIN players THEN "remove" ELSE lastOp
    /\ ProgramOver(c)
    /\ UNCHANGED <<revealed, masterConn, cred, msg, closeCalls, admission,
                   extras>>

\* The session ends without a quit key (client gone, or the session was
\* closed by s.Close()): the bubbletea middleware quits the program between
\* two messages.  No handler of the views runs.
SessionEnds(c) ==
    /\ pc[c] \in {"name", "player", "master"}
    /\ ProgramOver(c)
    /\ UNCHANGED <<registry, cred, msg, closeCalls, admission, extras,
                   lastOp>>

\* ----------------------------------------------------------- master view
\* (quitPlayers dropping the entries without closing their sessions.)
QuitPlayersNoClose(ps, cc) == cc

\* quitPlayers, the loop: player.session.Close() once for every entry.
QuitPlayersClose(ps, cc) ==
    [c \in Conns |->
        cc[c] + Cardinality({n \in DOMAIN ps : ps[n].session = c})]

\* (clearPlayerState starting the round with a new, empty map.)
ClearedPlayersEmptied(ps) == [n \in {} |-> ps[n]]

\* (clearPlayerState resetting points and leaving selected as it is.)
ClearedPointsOnly(ps) ==
    [n \in DOMAIN ps |-> [ps[n] EXCEPT !.points = ""]]

\* clearPlayerState, the loop: points = "" and selected = false for every
\* entry; the entries and their sessions stay.
ClearedPlayers(ps) ==
    [n \in DOMAIN ps |-> [ps[n] EXCEPT !.points = "", !.selected = FALSE]]

\* masterView.Update, Reveal key: state.revealed = true under Lock.
MasterReveal(c) ==
    /\ pc[c] = "master"
    /\ revealed' = TRUE
    /\ lastOp' = "reveal"
    /\ UNCHANGED <<players, masterConn, pc, locals, closeCalls, timers,
                   admission, extras>>

\* masterView.Update, Clear key: clearPlayerState(), then m.timer = nil.
\* m.timer is never assigned anything else and nothing reads it: the
\* goroutine that startTimer launched keeps sleeping.
MasterClear(c) ==
    /\ pc[c] = "master"
    /\ revealed' = FALSE
    /\ players' = ClearedPlayers(players)
    /\ cleared' = [cleared EXCEPT ![c] = @ \cup pending[c]]
    /\ lastOp' = "clear"
    /\ UNCHANGED <<masterConn, pc, locals, closeCalls, started, pending,
                   admission, extras>>

\* masterView.Update, Disconnect key: quitPlayers() between Lock and
\* Unlock, then m.timer = nil.  state.revealed is not touched.
MasterDisconnect(c) ==
    /\ pc[c] = "master"
    /\ closeCalls' = QuitPlayersClose(players, closeCalls)
    /\ players' = EmptyPlayers
    /\ cleared' = [cleared EXCEPT ![c] = @ \cup pending[c]]
    /\ lastOp' = "disconnect"
    /\ UNCHANGED <<revealed, masterConn, pc, locals, started, pending,
                   admission, extras>>

\* (A timer key that starts the countdown over the round as it stands.)
MasterStartTimerNoClear(c) ==
    /\ pc[c] = "master"
    /\ started[c] < MaxTimers
    /\ started' = [started EXCEPT ![c] = @ + 1]
    /\ pending' = [pending EXCEPT ![c] = @ \cup {started[c] + 1}]
    /\ lastOp' = "start"
    /\ UNCHANGED <<registry, pc, locals, closeCalls, cleared, admission,
                   extras>>

\* masterView.Update, keys 1/3/6: clearPlayerState(), then a new
\* startTimer command next to whatever commands are already sleeping.
MasterStartTimer(c) ==
    /\ pc[c] = "master"
    /\ started[c] < MaxTimers
    /\ revealed' = FALSE
    /\ players' = ClearedPlayers(players)
    /\ started' = [started EXCEPT ![c] = @ + 1]
    /\ pending' = [pending EXCEPT ![c] = @ \cup {started[c] + 1}]
    /\ lastOp' = "start"
    /\ UNCHANGED <<masterConn, pc, locals, closeCalls, cleared, admission,
                   extras>>

\* (A timerExpiredMsg that is taken off the queue and changes nothing.)
TimerExpiredDropped(c, t) ==
    /\ pc[c] \in {"master", "exiting"}
    /\ t \in pending[c]
    /\ pending' = [pending EXCEPT ![c] = @ \ {t}]
    /\ cleared' = [cleared EXCEPT ![c] = @ \ {t}]
    /\ lastOp' = "expire"
    /\ UNCHANGED <<registry, pc, locals, closeCalls, started, admission,
                   extras>>

\* masterView.Update, timerExpiredMsg: the message of timer t arrives
\* (startTimer's Sleep is over) and the program is still running, be it
\* with the QuitMsg of the Quit key behind it in the queue:
\* state.revealed = true under Lock, whichever timer sent it.
TimerExpired(c, t) ==
    /\ pc[c] \in {"master", "exiting"}
    /\ t \in pending[c]
    /\ pending' = [pending EXCEPT ![c] = @ \ {t}]
    /\ cleared' = [cleared EXCEPT ![c] = @ \ {t}]
    /\ revealed' = TRUE
    /\ lastOp' = "expire"
    /\ UNCHANGED <<players, masterConn, pc, locals, closeCalls, started,
                   admission, extras>>

\* masterView.Update, Quit key, first half: quitPlayers() WITHOUT the lock.
\* The loop closes the sessions of the entries it finds.
MasterQuitClose(c) ==
    /\ pc[c] = "master"
    /\ closeCalls' = QuitPlayersClose(players, closeCalls)
    /\ pc' = [pc EXCEPT ![c] = "quitting"]
    /\ UNCHANGED <<registry, locals, timers, admission, extras, lastOp>>

\* Quit key, second half: state.players = make(...) at the end of
\* quitPlayers and the start of state.masterConn = nil, both without the
\* lock.  An entry stored since the loop is dropped without having been
\* closed.  masterConn is an interface value, two machine words (type,
\* data) that a plain assignment stores one after the other: with the type
\* word cleared the slot already reads as nil, to the nil test of
\* pokerHandler and to the comparison of sessionCloseMiddleware alike.
MasterQuitUnset(c) ==
    /\ pc[c] = "quitting"
    /\ players' = EmptyPlayers
    /\ masterConn' = Nil
    /\ pc' = [pc EXCEPT ![c] = "unsetting"]
    /\ lastOp' = "quit"
    /\ UNCHANGED <<revealed, locals, closeCalls, timers, admission,
                   extras>>

\* The end of the unlocked assignment: the data word is cleared.  When
\* pokerHandler, which holds the lock, has stored a new Scrum Master in
\* between, the slot is left with that session's type word and a nil data
\* word: not nil, and equal to no session.
QuitStore(slot) == IF slot = Nil THEN Nil ELSE Torn

\* Quit key, the end: the assignment completes, then tea.Quit, and the
\* QuitMsg it sends is the next message the program reads.
MasterQuitFinish(c) ==
    /\ pc[c] = "unsetting"
    /\ masterConn' = QuitStore(masterConn)
    /\ ProgramOver(c)
    /\ lastOp' = IF masterConn = Nil THEN lastOp ELSE "tear"
    /\ UNCHANGED <<players, revealed, cred, msg, closeCalls, admission,
                   extras>>

\* Quit key, the end, when the QuitMsg is not the next message.  tea.Quit
\* is a command: Update returns it, the program runs it aside and goes on
\* reading its message queue until the QuitMsg the command sends comes up;
\* the message of a countdown that ran out in the meantime is read first.
MasterQuitReturn(c) ==
    /\ pc[c] = "unsetting"
    /\ pending[c] # {}
    /\ masterConn' = QuitStore(masterConn)
    /\ pc' = [pc EXCEPT ![c] = "exiting"]
    /\ lastOp' = IF masterConn = Nil THEN lastOp ELSE "tear"
    /\ UNCHANGED <<players, revealed, locals, closeCalls, timers, admission,
                   extras>>

\* The QuitMsg of the Quit key is read: the program of the Scrum Master
\* is over.
MasterQuitMsg(c) ==
    /\ pc[c] = "exiting"
    /\ ProgramOver(c)
    /\ UNCHANGED <<registry, cred, msg, closeCalls, admission, extras,
                   lastOp>>

\* The unlocked quitPlayers loop races with a locked write of the same map
\* (initPlayerView's store, a participant's delete): the Go runtime may
\* detect it ("concurrent map iteration and map write") and abort the
\* process: every goroutine stops where it is.
MapRace(c) ==
    /\ \E m \in Conns : pc[m] = "quitting"
    /\ \/ pc[c] = "init"
       \/ pc[c] = "player" /\ pname[c] \in DOMAIN players
    /\ pc' = [x \in Conns |-> "aborted"]
    /\ UNCHANGED <<registry, locals, closeCalls, timers, admission,
                   extras, lastOp>>

\* --------------------------------------------- sessionTimeoutMiddleware
\* It is the second middleware of the list, so it wraps
\* connectionLimitMiddleware only and, like it, runs when the program of
\* the session is over: that is when context.WithTimeout starts counting.
\* It runs h(s) in a goroutine and waits for it or for ctx.Done(); ctx is
\* done after sessionTimeout, and also as soon as the context of the
\* session is (the client is gone).  When ctx.Done() wins, the session is
\* closed and the chain goes on to sessionCloseMiddleware; the goroutine
\* finishes connectionLimitMiddleware on its own (counted in, counted out).
SessionTimeoutExpired(c) ==
    /\ pc[c] = "ended"
    /\ closeCalls' = [closeCalls EXCEPT ![c] = @ + 1]
    /\ pc' = [pc EXCEPT ![c] = "closing"]
    /\ UNCHANGED <<registry, locals, timers, admission, extras, lastOp>>

\* ------------------------------------------- connectionLimitMiddleware
\* It is the first middleware of the list, so it wraps the empty handler
\* and runs when the bubbletea middleware calls h(s): after the program of
\* the session has ended (or was never started).

\* if connectionCount.Load() >= maxConnections
GlobalLimitReached == connectionCount >= maxConnections

\* if ipCount.Load() >= maxConnectionsPerIP
IPLimitReached(c) == connectionsByIP[RemoteAddr(c)] >= maxConnectionsPerIP

\* The global check: a Load, compared with the limit.
LimitGlobalCheck(c) ==
    /\ pc[c] = "ended"
    /\ IF GlobalLimitReached
       THEN /\ msg' = [msg EXCEPT ![c] = ErrCapacity]
            /\ closeCalls' = [closeCalls EXCEPT ![c] = @ + 1]
            /\ pc' = [pc EXCEPT ![c] = "closing"]
       ELSE /\ pc' = [pc EXCEPT ![c] = "count"]
            /\ UNCHANGED <<msg, closeCalls>>
    /\ UNCHANGED <<registry, cred, pname, sel, timers, admission, extras,
                   lastOp>>

\* connectionCount.Add(1), a separate atomic operation.
LimitGlobalAdd(c) ==
    /\ pc[c] = "count"
    /\ connectionCount' = connectionCount + 1
    /\ pc' = [pc EXCEPT ![c] = "ipcheck"]
    /\ UNCHANGED <<registry, locals, closeCalls, timers, connectionsByIP,
                   others, othersByIP, extras, lastOp>>

\* The per-IP check; a refusal leaves through the deferred global Add(-1).
LimitIPCheck(c) ==
    /\ pc[c] = "ipcheck"
    /\ IF IPLimitReached(c)
       THEN /\ msg' = [msg EXCEPT ![c] = ErrPerIP]
            /\ closeCalls' = [closeCalls EXCEPT ![c] = @ + 1]
            /\ pc' = [pc EXCEPT ![c] = "uncount"]
       ELSE /\ pc' = [pc EXCEPT ![c] = "ipcount"]
            /\ UNCHANGED <<msg, closeCalls>>
    /\ UNCHANGED <<registry, cred, pname, sel, timers, admission, extras,
                   lastOp>>

\* ipCount.Add(1); then h(s), the empty handler, returns at once.
LimitIPAdd(c) ==
    /\ pc[c] = "ipcount"
    /\ connectionsByIP' =
           [connectionsByIP EXCEPT ![RemoteAddr(c)] = @ + 1]
    /\ pc' = [pc EXCEPT ![c] = "admitted"]
    /\ UNCHANGED <<registry, locals, closeCalls, timers, connectionCount,
                   others, othersByIP, extras, lastOp>>

\* defer ipCount.Add(-1)
LimitIPRelease(c) ==
    /\ pc[c] = "admitted"
    /\ connectionsByIP' =
           [connectionsByIP EXCEPT ![RemoteAddr(c)] = @ - 1]
    /\ pc' = [pc EXCEPT ![c] = "uncount"]
    /\ UNCHANGED <<registry, locals, closeCalls, timers, connectionCount,
                   others, othersByIP, extras, lastOp>>

\* (connectionLimitMiddleware returning without its deferred
\* connectionCount.Add(-1).)
LimitGlobalReleaseForgotten(c) ==
    /\ pc[c] = "uncount"
    /\ pc' = [pc EXCEPT ![c] = "closing"]
    /\ UNCHANGED <<registry, locals, closeCalls, timers, admission,
                   extras, lastOp>>

\* defer connectionCount.Add(-1)
LimitGlobalRelease(c) ==
    /\ pc[c] = "uncount"
    /\ connectionCount' = connectionCount - 1
    /\ pc' = [pc EXCEPT ![c] = "closing"]
    /\ UNCHANGED <<registry, locals, closeCalls, timers, connectionsByIP,
                   others, othersByIP, extras, lastOp>>

\* connectionLimitMiddleware as a whole, for a session that runs it while
\* no other session is inside it: refused at a reached limit, and else
\* counted in, passed to the empty handler and counted out again.  This is
\* the middleware in Spec, where the few sessions cannot reach a limit and
\* the counters decide nothing; SpecLimit runs it one atomic operation at
\* a time.
ConnectionLimit(c) ==
    /\ pc[c] = "ended"
    /\ IF GlobalLimitReached
       THEN /\ msg' = [msg EXCEPT ![c] = ErrCapacity]
            /\ closeCalls' = [closeCalls EXCEPT ![c] = @ + 1]
       ELSE IF IPLimitReached(c)
       THEN /\ msg' = [msg EXCEPT ![c] = ErrPerIP]
            /\ closeCalls' = [closeCalls EXCEPT ![c] = @ + 1]
       ELSE UNCHANGED <<msg, closeCalls>>
    /\ pc' = [pc EXCEPT ![c] = "closing"]
    /\ UNCHANGED <<registry, cred, pname, sel, timers, admission, extras,
                   lastOp>>

\* A session that is not followed one by one (a participant that left the
\* name entry with ctrl+c, from an origin that is none of Origins) passes
\* the global check and counts itself in, with no other goroutine in
\* between.
OtherAdmit ==
    /\ ~GlobalLimitReached
    /\ connectionCount' = connectionCount + 1
    /\ others' = others + 1
    /\ UNCHANGED <<registry, pc, locals, closeCalls, timers, connectionsByIP,
                   othersByIP, extras, lastOp>>

\* Such a session leaves: its deferred connectionCount.Add(-1).
OtherRelease ==
    /\ others > 0
    /\ connectionCount' = connectionCount - 1
    /\ others' = others - 1
    /\ UNCHANGED <<registry, pc, locals, closeCalls, timers, connectionsByIP,
                   othersByIP, extras, lastOp>>

\* A session from origin o that is not followed one by one passes both
\* checks and counts itself in twice, with no other goroutine in between.
OriginAdmit(o) ==
    /\ ~GlobalLimitReached
    /\ connectionsByIP[o] < maxConnectionsPerIP
    /\ connectionCount' = connectionCount + 1
    /\ connectionsByIP' = [connectionsByIP EXCEPT ![o] = @ + 1]
    /\ othersByIP' = [othersByIP EXCEPT ![o] = @ + 1]
    /\ UNCHANGED <<registry, pc, locals, closeCalls, timers, others,
                   extras, lastOp>>

\* Such a session leaves: its two deferred Add(-1).
OriginRelease(o) ==
    /\ othersByIP[o] > 0
    /\ connectionCount' = connectionCount - 1
    /\ connectionsByIP' = [connectionsByIP EXCEPT ![o] = @ - 1]
    /\ othersByIP' = [othersByIP EXCEPT ![o] = @ - 1]
    /\ UNCHANGED <<registry, pc, locals, closeCalls, timers, others,
                   extras, lastOp>>

\* ---------------------------------------------- sessionCloseMiddleware
\* After h(s) has returned: under Lock, forget the master connection if it
\* is this session.
SessionClose(c) ==
    /\ pc[c] = "closing"
    /\ masterConn' = IF masterConn = c THEN Nil ELSE masterConn
    /\ lastOp' = IF masterConn = c THEN "release" ELSE lastOp
    /\ pc' = [pc EXCEPT ![c] = "done"]
    /\ UNCHANGED <<players, revealed, locals, closeCalls, timers, admission,
                   extras>>

\* ---------------------------------------------------------------- state.mu
\* The handlers once more, one step per Lock, Unlock, RLock and RUnlock of
\* state.mu (a sync.RWMutex) and per piece of work in between.  mu.writer
\* is the session whose goroutine holds the write lock, mu.readers are
\* those that hold a read lock.
\* The handlers that have come to a Lock() call and have not got the
\* lock yet.
LockWaiters == {c \in Conns : pc[c] \in {"init", "enter", "leaving", "closing"}}

\* Lock() returns when nobody holds the lock; RLock() returns when nobody
\* writes and no Lock() call is waiting (a blocked Lock call keeps new
\* readers out).
CanLock == mu.writer = Nil /\ mu.readers = {}
CanRLock == mu.writer = Nil /\ LockWaiters = {}
Lock(c) == [mu EXCEPT !.writer = c]
Unlock == [mu EXCEPT !.writer = Nil]
RLock(c) == [mu EXCEPT !.readers = @ \cup {c}]
RUnlock(c) == [mu EXCEPT !.readers = @ \ {c}]

\* pokerHandler with an authorized key: state.mu.Lock().
HandlerLock(c) ==
    /\ pc[c] = "idle"
    /\ TRUE \in Keys(c)
    /\ CanLock
    /\ mu' = Lock(c)
    /\ cred' = [cred EXCEPT ![c] = TRUE]
    /\ pc' = [pc EXCEPT ![c] = "claiming"]
    /\ UNCHANGED <<registry, pname, sel, msg, closeCalls, timers, admission,
                   validation, statistics, lastOp>>

\* pokerHandler: the nil test, the store when it succeeds, and Unlock on
\* either branch.
HandlerUnlock(c) ==
    /\ pc[c] = "claiming"
    /\ mu' = Unlock
    /\ IF ClaimGranted(c)
       THEN /\ masterConn' = c
            /\ pc' = [pc EXCEPT ![c] = "master"]
            /\ lastOp' = "claim"
       ELSE /\ pc' = [pc EXCEPT ![c] = "refusing"]
            /\ UNCHANGED <<masterConn, lastOp>>
    /\ UNCHANGED <<players, revealed, locals, closeCalls, timers, admission,
                   validation, statistics>>

\* pokerHandler: wish.Fatalln after the Unlock of the refusing branch.
HandlerFatal(c) ==
    /\ pc[c] = "refusing"
    /\ msg' = [msg EXCEPT ![c] = ErrMaster]
    /\ closeCalls' = [closeCalls EXCEPT ![c] = @ + 1]
    /\ pc' = [pc EXCEPT ![c] = "ended"]
    /\ UNCHANGED <<registry, cred, pname, sel, timers, admission, extras,
                   lastOp>>

\* nameInputView.Update, KeyEnter with a name: state.mu.RLock().
NameRLock(c, name) ==
    /\ pc[c] = "name"
    /\ CanRLock
    /\ mu' = RLock(c)
    /\ pname' = [pname EXCEPT ![c] = name]
    /\ pc' = [pc EXCEPT ![c] = "lookup"]
    /\ UNCHANGED <<registry, cred, sel, msg, closeCalls, timers, admission,
                   validation, statistics, lastOp>>

\* nameInputView.Update: the lookup and RUnlock; a name that was found is
\* refused, any other goes on to initPlayerView.
NameRUnlock(c) ==
    /\ pc[c] = "lookup"
    /\ mu' = RUnlock(c)
    /\ IF NameTaken(pname[c])
       THEN /\ msg' = [msg EXCEPT ![c] = ErrTaken]
            /\ pname' = [pname EXCEPT ![c] = ""]
            /\ pc' = [pc EXCEPT ![c] = "name"]
       ELSE /\ pc' = [pc EXCEPT ![c] = "init"]
            /\ UNCHANGED <<msg, pname>>
    /\ UNCHANGED <<registry, cred, sel, closeCalls, timers, admission,
                   validation, statistics, lastOp>>

\* initPlayerView: state.mu.Lock().
InitLock(c) ==
    /\ pc[c] = "init"
    /\ CanLock
    /\ mu' = Lock(c)
    /\ pc' = [pc EXCEPT ![c] = "storing"]
    /\ UNCHANGED <<registry, locals, closeCalls, timers, admission,
                   validation, statistics, lastOp>>

\* initPlayerView: the store and Unlock.
InitUnlock(c) ==
    /\ pc[c] = "storing"
    /\ players' = RegisterPlayer(players, pname[c], c)
    /\ mu' = Unlock
    /\ pc' = [pc EXCEPT ![c] = "player"]
    /\ msg' = [msg EXCEPT ![c] = ""]
    /\ lastOp' = "register"
    /\ UNCHANGED <<revealed, masterConn, cred, pname, sel, closeCalls,
                   timers, admission, validation, statistics>>

\* playerView.Update, any key: state.mu.RLock() at the top.
UpdateRLock(c) ==
    /\ pc[c] = "player"
    /\ CanRLock
    /\ mu' = RLock(c)
    /\ pc' = [pc EXCEPT ![c] = "reading"]
    /\ UNCHANGED <<registry, locals, closeCalls, timers, admission,
                   validation, statistics, lastOp>>

\* playerView.Update, "enter": revealed is read, RUnlock, and the handler
\* goes on to the write lock when the round is not revealed.
UpdateEnter(c, v) ==
    /\ pc[c] = "reading"
    /\ mu' = RUnlock(c)
    /\ IF revealed
       THEN /\ pc' = [pc EXCEPT ![c] = "player"]
            /\ UNCHANGED sel
       ELSE /\ pc' = [pc EXCEPT ![c] = "enter"]
            /\ sel' = [sel EXCEPT ![c] = v]
    /\ UNCHANGED <<registry, cred, pname, msg, closeCalls, timers, admission,
                   validation, statistics, lastOp>>

\* playerView.Update, a quit key: revealed is read, RUnlock, and the
\* handler goes on to the write lock.
UpdateQuit(c) ==
    /\ pc[c] = "reading"
    /\ mu' = RUnlock(c)
    /\ pc' = [pc EXCEPT ![c] = "leaving"]
    /\ UNCHANGED <<registry, locals, closeCalls, timers, admission,
                   validation, statistics, lastOp>>

\* playerView.Update, "enter": state.mu.Lock().
VoteLock(c) ==
    /\ pc[c] = "enter"
    /\ CanLock
    /\ mu' = Lock(c)
    /\ pc' = [pc EXCEPT ![c] = "voting"]
    /\ UNCHANGED <<registry, locals, closeCalls, timers, admission,
                   validation, statistics, lastOp>>

\* player.points = p.selectedValue, when the entry exists.
VotePointsSet(ps, name, v) ==
    IF name \in DOMAIN ps THEN [ps EXCEPT ![name].points = v] ELSE ps

\* (The vote that stops after its first assignment.)
VoteSelectedSkipped(ps, name) == ps

\* player.selected = true, when the entry exists.
VoteSelectedSet(ps, name) ==
    IF name \in DOMAIN ps THEN [ps EXCEPT ![name].selected = TRUE] ELSE ps

\* playerView.Update, "enter", the first assignment under the lock.
VotePoints(c) ==
    /\ pc[c] = "voting"
    /\ players' = VotePointsSet(players, pname[c], sel[c])
    /\ pc' = [pc EXCEPT ![c] = "marking"]
    /\ UNCHANGED <<revealed, masterConn, locals, closeCalls, timers,
                   admission, extras, lastOp>>

\* playerView.Update, "enter", the second assignment and Unlock.
VoteUnlock(c) ==
    /\ pc[c] = "marking"
    /\ players' = VoteSelectedSet(players, pname[c])
    /\ mu' = Unlock
    /\ lastOp' = IF pname[c] \in DOMAIN players THEN "vote" ELSE lastOp
    /\ pc' = [pc EXCEPT ![c] = "player"]
    /\ sel' = [sel EXCEPT ![c] = ""]
    /\ UNCHANGED <<revealed, masterConn, cred, pname, msg, closeCalls,
                   timers, admission, validation, statistics>>

\* playerView.Update, a quit key: state.mu.Lock().
LeaveLock(c) ==
    /\ pc[c] = "leaving"
    /\ CanLock
    /\ mu' = Lock(c)
    /\ pc' = [pc EXCEPT ![c] = "deleting"]
    /\ UNCHANGED <<registry, locals, closeCalls, timers, admission,
                   validation, statistics, lastOp>>

\* playerView.Update, a quit key: delete, Unlock and tea.Quit.
LeaveUnlock(c) ==
    /\ pc[c] = "deleting"
    /\ players' = Delete(players, pname[c])
    /\ mu' = Unlock
    /\ lastOp' = IF pname[c] \in DOMAIN players THEN "remove" ELSE lastOp
    /\ ProgramOver(c)
    /\ UNCHANGED <<revealed, masterConn, cred, msg, closeCalls, admission,
                   validation, statistics>>

\* masterView.Update, the Reveal, Clear and Disconnect keys:
\* state.mu.Lock() (for Clear the one inside clearPlayerState).
MasterKeys == {"revealing", "clearing", "disconnecting"}

MasterLock(c, key) ==
    /\ pc[c] = "master"
    /\ CanLock
    /\ mu' = Lock(c)
    /\ pc' = [pc EXCEPT ![c] = key]
    /\ UNCHANGED <<registry, locals, closeCalls, timers, admission,
                   validation, statistics, lastOp>>

\* Reveal: state.revealed = true and Unlock.
RevealUnlock(c) ==
    /\ pc[c] = "revealing"
    /\ revealed' = TRUE
    /\ mu' = Unlock
    /\ lastOp' = "reveal"
    /\ pc' = [pc EXCEPT ![c] = "master"]
    /\ UNCHANGED <<players, masterConn, locals, closeCalls, timers,
                   admission, validation, statistics>>

\* Clear: the body of clearPlayerState and its Unlock.
ClearUnlock(c) ==
    /\ pc[c] = "clearing"
    /\ revealed' = FALSE
    /\ players' = ClearedPlayers(players)
    /\ mu' = Unlock
    /\ lastOp' = "clear"
    /\ pc' = [pc EXCEPT ![c] = "master"]
    /\ UNCHANGED <<masterConn, locals, closeCalls, timers, admission,
                   validation, statistics>>

\* Disconnect: quitPlayers() called between Lock and Unlock.  Its loop
\* writes the reset sequences to every participant's session
\* (resetTerminal) and closes it, then the map is replaced.
DisconnectClose(c) ==
    /\ pc[c] = "disconnecting"
    /\ closeCalls' = QuitPlayersClose(players, closeCalls)
    /\ players' = EmptyPlayers
    /\ lastOp' = "disconnect"
    /\ pc' = [pc EXCEPT ![c] = "disconnected"]
    /\ UNCHANGED <<revealed, masterConn, locals, timers, admission, extras>>

\* (A Disconnect branch that returns without its Unlock.)
DisconnectUnlockForgotten(c) ==
    /\ pc[c] = "disconnected"
    /\ pc' = [pc EXCEPT ![c] = "master"]
    /\ UNCHANGED <<registry, locals, closeCalls, timers, admission, extras,
                   lastOp>>

\* Disconnect: state.mu.Unlock().
DisconnectUnlock(c) ==
    /\ pc[c] = "disconnected"
    /\ mu' = Unlock
    /\ pc' = [pc EXCEPT ![c] = "master"]
    /\ UNCHANGED <<registry, locals, closeCalls, timers, admission,
                   validation, statistics, lastOp>>

\* masterView.View: state.mu.RLock(); the deferred RUnlock runs when the
\* screen, statistics included, has been put together.
ViewRLock(c) ==
    /\ pc[c] = "master"
    /\ CanRLock
    /\ mu' = RLock(c)
    /\ pc' = [pc EXCEPT ![c] = "rendering"]
    /\ UNCHANGED <<registry, locals, closeCalls, timers, admission,
                   validation, statistics, lastOp>>

ViewRUnlock(c) ==
    /\ pc[c] = "rendering"
    /\ mu' = RUnlock(c)
    /\ pc' = [pc EXCEPT ![c] = "master"]
    /\ UNCHANGED <<registry, locals, closeCalls, timers, admission,
                   validation, statistics, lastOp>>

\* sessionCloseMiddleware after h(s): resetTerminal(s), then
\* state.mu.Lock().
CloseLock(c) ==
    /\ pc[c] = "closing"
    /\ CanLock
    /\ mu' = Lock(c)
    /\ pc' = [pc EXCEPT ![c] = "releasing"]
    /\ UNCHANGED <<registry, locals, closeCalls, timers, admission,
                   validation, statistics, lastOp>>

\* sessionCloseMiddleware: the guarded release and the deferred Unlock.
CloseUnlock(c) ==
    /\ pc[c] = "releasing"
    /\ masterConn' = IF masterConn = c THEN Nil ELSE masterConn
    /\ mu' = Unlock
    /\ lastOp' = IF masterConn = c THEN "release" ELSE lastOp
    /\ pc' = [pc EXCEPT ![c] = "done"]
    /\ UNCHANGED <<players, revealed, locals, closeCalls, timers, admission,
                   validation, statistics>>

\* --------------------------------------------------------- specifications
Participant(c) ==
    \/ \E name \in NameInputs : NameEnter(c, name)
    \/ InitPlayerView(c)
    \/ NameCtrlC(c)
    \/ \E v \in pointOptions : PlayerEnter(c, v)
    \/ PlayerVote(c)
    \/ PlayerQuit(c)

Master(c) ==
    \/ MasterReveal(c)
    \/ MasterClear(c)
    \/ MasterDisconnect(c)
    \/ MasterStartTimer(c)
    \/ \E t \in 1 .. MaxTimers : TimerExpired(c, t)
    \/ MasterQuitClose(c)
    \/ MasterQuitUnset(c)
    \/ MasterQuitFinish(c)

Limit(c) ==
    \/ LimitGlobalCheck(c)
    \/ LimitGlobalAdd(c)
    \/ LimitIPCheck(c)
    \/ LimitIPAdd(c)
    \/ LimitIPRelease(c)
    \/ LimitGlobalRelease(c)

Next ==
    \E c \in Conns :
        \/ \E key \in Keys(c) : PokerHandler(c, key)
        \/ Participant(c)
        \/ Master(c)
        \/ SessionEnds(c)
        \/ MapRace(c)
        \/ ConnectionLimit(c)
        \/ SessionClose(c)

Spec == Init /\ [][Next]_vars

\* The life of a session from its connection to its end, without the
\* votes and the countdowns, and with both ways out of
\* sessionTimeoutMiddleware (Spec follows the sessions whose h(s) is back
\* before ctx.Done() is looked at).  What the code does by itself is fair: a
\* handler that has started goes on to its end, a middleware that is
\* entered runs, a timeout that is counting expires.  What the client
\* does (pressing a key, going away) may never happen.
NextTimeout ==
    \E c \in Conns :
        \/ \E key \in Keys(c) : PokerHandler(c, key)
        \/ \E name \in NameInputs : NameEnter(c, name)
        \/ InitPlayerView(c)
        \/ NameCtrlC(c)
        \/ PlayerQuit(c)
        \/ MasterDisconnect(c)
        \/ MasterQuitClose(c)
        \/ MasterQuitUnset(c)
        \/ MasterQuitFinish(c)
        \/ MapRace(c)
        \/ SessionEnds(c)
        \/ SessionTimeoutExpired(c)
        \/ ConnectionLimit(c)
        \/ SessionClose(c)

FairTimeout ==
    \A c \in Conns :
        /\ WF_vars(InitPlayerView(c))
        /\ WF_vars(MasterQuitUnset(c))
        /\ WF_vars(MasterQuitFinish(c))
        /\ WF_vars(SessionTimeoutExpired(c))
        /\ WF_vars(ConnectionLimit(c))
        /\ WF_vars(SessionClose(c))

SpecTimeout == Init /\ [][NextTimeout]_vars /\ FairTimeout

\* The admission counters under load: up to maxConnections and more
\* sessions inside connectionLimitMiddleware at once.  The sessions that
\* are followed one by one connect, end their program without registering
\* (ctrl+c in the name entry, the client going away, a denied or ended
\* Scrum Master) and run the rest of the middleware chain.
NextLimit ==
    \/ OtherAdmit
    \/ OtherRelease
    \/ \E c \in Conns :
          \/ \E key \in Keys(c) : PokerHandler(c, key)
          \/ NameCtrlC(c)
          \/ SessionEnds(c)
          \/ Limit(c)
          \/ SessionClose(c)

SpecLimit == Init /\ [][NextLimit]_vars

\* The per-origin counters under load: up to maxConnectionsPerIP and more
\* sessions of one origin inside connectionLimitMiddleware at once.
NextOrigin ==
    \/ \E o \in Origins : OriginAdmit(o)
    \/ \E o \in Origins : OriginRelease(o)
    \/ \E c \in Conns :
          \/ \E key \in Keys(c) : PokerHandler(c, key)
          \/ NameCtrlC(c)
          \/ SessionEnds(c)
          \/ Limit(c)
          \/ SessionClose(c)

SpecOrigin == Init /\ [][NextOrigin]_vars

\* The handlers at the level of state.mu.  The Quit key is the one path
\* that takes no lock (MasterQuitClose, MasterQuitUnset, MasterQuitFinish);
\* the countdown keys lock as Clear and Reveal do and are left to Spec.
LockedParticipantOn(c, names, values) ==
    \/ \E name \in names : NameRLock(c, name)
    \/ NameRUnlock(c)
    \/ InitLock(c)
    \/ InitUnlock(c)
    \/ UpdateRLock(c)
    \/ \E v \in values : UpdateEnter(c, v)
    \/ UpdateQuit(c)
    \/ VoteLock(c)
    \/ VotePoints(c)
    \/ VoteUnlock(c)
    \/ LeaveLock(c)
    \/ LeaveUnlock(c)

LockedParticipant(c) == LockedParticipantOn(c, Names, pointOptions)

LockedMaster(c) ==
    \/ \E key \in MasterKeys : MasterLock(c, key)
    \/ RevealUnlock(c)
    \/ ClearUnlock(c)
    \/ DisconnectClose(c)
    \/ DisconnectUnlock(c)
    \/ ViewRLock(c)
    \/ ViewRUnlock(c)
    \/ MasterQuitClose(c)
    \/ MasterQuitUnset(c)
    \/ MasterQuitFinish(c)

NextLockOn(names, values) ==
    \E c \in Conns :
        \/ HandlerLock(c)
        \/ HandlerUnlock(c)
        \/ HandlerFatal(c)
        \/ PokerHandler(c, FALSE) /\ FALSE \in Keys(c)
        \/ LockedParticipantOn(c, names, values)
        \/ LockedMaster(c)
        \/ SessionEnds(c)
        \/ ConnectionLimit(c)
        \/ CloseLock(c)
        \/ CloseUnlock(c)

NextLock == NextLockOn(Names, pointOptions)

SpecLock == Init /\ [][NextLock]_vars

\* What the scheduler and the mutex give: a handler inside a locked section
\* goes on to the end of it, and a handler waiting in Lock() gets the lock
\* if it is free again and again (sync.Mutex hands the lock to a waiter
\* that has been passed over).  Whether a key is pressed is up to the
\* client.
InSection(c) ==
    \/ HandlerUnlock(c)
    \/ NameRUnlock(c)
    \/ InitUnlock(c)
    \/ UpdateEnter(c, "3")
    \/ VotePoints(c)
    \/ VoteUnlock(c)
    \/ LeaveUnlock(c)
    \/ RevealUnlock(c)
    \/ ClearUnlock(c)
    \/ DisconnectClose(c)
    \/ DisconnectUnlock(c)
    \/ ViewRUnlock(c)
    \/ CloseUnlock(c)

Acquire(c) ==
    \/ InitLock(c)
    \/ VoteLock(c)
    \/ LeaveLock(c)
    \/ CloseLock(c)

FairLock ==
    \A c \in Conns : WF_vars(InSection(c)) /\ SF_vars(Acquire(c))

\* The fair runs are followed with one name and one point value: which
\* name is asked for and which value is voted decides nothing about the
\* lock.
NextLockFair == NextLockOn({"alice"}, {"3"})

SpecLockFair == Init /\ [][NextLockFair]_vars /\ FairLock

\* Spec with both ends of the Quit key: the QuitMsg read next
\* (MasterQuitFinish, the only one Spec follows) or after the message of
\* a countdown (MasterQuitReturn, MasterQuitMsg).
NextQuit ==
    \/ Next
    \/ \E c \in Conns : MasterQuitReturn(c)
    \/ \E c \in Conns : MasterQuitMsg(c)

SpecQuit == Init /\ [][NextQuit]_vars

\* ------------------------------------------------------------- the crowd
\* Participants besides the sessions followed one by one: each one is
\* a session of its own that goes through nameInputView.Update with a
\* name nobody holds (p1, p2, ...) and through initPlayerView, and leaves
\* with a quit key.  Outsider stands for the session of any of them.
Outsider == -2

CrowdName(k) == "p" \o ToString(k)

Crowd == {n \in DOMAIN players : players[n].session = Outsider}

OtherJoin ==
    /\ Cardinality(Crowd) < MaxCrowd
    /\ ~NameTaken(CrowdName(Cardinality(Crowd) + 1))
    /\ players' = RegisterPlayer(players, CrowdName(Cardinality(Crowd) + 1),
                                 Outsider)
    /\ lastOp' = "register"
    /\ UNCHANGED <<revealed, masterConn, pc, locals, closeCalls, timers,
                   admission, extras>>

OtherLeave ==
    /\ Crowd # {}
    /\ players' = Delete(players, CrowdName(Cardinality(Crowd)))
    /\ lastOp' = "remove"
    /\ UNCHANGED <<revealed, masterConn, pc, locals, closeCalls, timers,
                   admission, extras>>

\* Registrations and departures, of the crowd and of the sessions
\* followed one by one.
NextPlayers ==
    \/ OtherJoin
    \/ OtherLeave
    \/ \E c \in Conns :
          \/ \E key \in Keys(c) : PokerHandler(c, key)
          \/ \E name \in NameInputs : NameEnter(c, name)
          \/ InitPlayerView(c)
          \/ NameCtrlC(c)
          \/ PlayerQuit(c)
          \/ SessionEnds(c)

SpecPlayers == Init /\ [][NextPlayers]_vars

\* The sum of f over the set S.
RECURSIVE Sum(_, _)
Sum(f, S) ==
    IF S = {} THEN 0
    ELSE LET x == CHOOSE y \in S : TRUE IN f[x] + Sum(f, S \ {x})

\* Sessions that have passed the global check and counted themselves in,
\* and have not yet run their deferred connectionCount.Add(-1).
Admitted ==
    others + Sum(othersByIP, Origins)
    + Cardinality({c \in Conns :
          pc[c] \in {"ipcheck", "ipcount", "admitted", "uncount"}})

\* Sessions of origin o that have passed the per-IP check and counted
\* themselves in, and have not yet run their deferred ipCount.Add(-1).
AdmittedFrom(o) ==
    othersByIP[o]
    + Cardinality({c \in Conns : RemoteAddr(c) = o /\ pc[c] = "admitted"})

\* Connections whose Bubble Tea program is a masterView.
MasterViews == {c \in Conns : pc[c] \in {"master", "quitting"}}

\* Connections past their program: in the tail of the middleware chain.
PastProgram(c) ==
    pc[c] \in {"ended", "count", "ipcheck", "ipcount", "admitted", "uncount",
               "closing", "done", "aborted"}

\* ------------------------------------------------------------------ C1
\* C1: at most one connection holds the facilitator slot, and a connection
\* that presents an authorized key while the slot is held is told so and
\* closed, never gets a view of its own, and leaves players, revealed and
\* masterConn as they were.
C1_Denied(c) ==
    /\ pc[c] = "idle"
    /\ pc'[c] # "idle"
    /\ cred'[c]
    /\ masterConn # Nil

C1_OneFacilitator ==
    /\ [](/\ Cardinality(MasterViews) <= 1
          /\ MasterViews # {} => masterConn # Nil
          /\ \A c \in Conns :
                msg[c] = ErrMaster =>
                    /\ PastProgram(c)
                    /\ closeCalls[c] >= 1
                    /\ c \notin Sessions(players))
    /\ [][\A c \in Conns :
            C1_Denied(c) =>
                /\ UNCHANGED registry
                /\ pc'[c] = "ended"
                /\ msg'[c] = ErrMaster
                /\ closeCalls'[c] = closeCalls[c] + 1]_vars

\* A second key holder has been denied while the first one is the master.
C1_Witness ==
    \E c \in Conns :
        /\ msg[c] = ErrMaster
        /\ pc[c] = "ended"
        /\ masterConn \in Conns \ {c}
        /\ pc[masterConn] = "master"

\* ------------------------------------------------------------------ C2
\* C2: a connection whose name was stored by somebody else between its
\* presence check and its own store is not inserted and is told "name
\* already taken".
C2_OneRegistration ==
    [][\A c \in Conns :
          (pc[c] = "init" /\ pc'[c] # "init" /\ NameTaken(pname[c])) =>
              /\ players' = players
              /\ msg'[c] = ErrTaken]_vars

\* ------------------------------------------------------------------ C3
\* C3: the expiry of a countdown that a newer countdown has replaced does
\* not set the reveal flag.
C3_SupersededTimer ==
    [][\A c \in Conns : \A t \in pending[c] :
          (/\ pc'[c] = "master"
           /\ t \notin pending'[c]
           /\ t < started[c]
           /\ ~revealed) => ~revealed']_vars

\* ------------------------------------------------------------------ C4
\* C4: the expiry of a countdown started before a clear or a
\* disconnect-all does not set the reveal flag.
C4_ClearedTimer ==
    [][\A c \in Conns : \A t \in pending[c] :
          (/\ pc'[c] = "master"
           /\ t \notin pending'[c]
           /\ t \in cleared[c]
           /\ ~revealed) => ~revealed']_vars

\* ------------------------------------------------------------------ C5
\* C5: while the reveal flag stays true, no entry's points or selected
\* flag changes.
C5_VotesFrozen ==
    [][(revealed /\ revealed') =>
          \A n \in DOMAIN players \cap DOMAIN players' :
              players'[n].session = players[n].session =>
                  players'[n] = players[n]]_vars

\* ------------------------------------------------------------------ C6
\* C6: right after clearPlayerState() (the Clear key or a timer key), the
\* reveal flag is false and every entry has empty points and selected
\* false.
C6_ClearResets ==
    lastOp \in {"clear", "start"} =>
        /\ ~revealed
        /\ \A n \in DOMAIN players :
              players[n].points = "" /\ ~players[n].selected

\* The Clear key has just been handled with participants registered.
C6_Witness ==
    /\ lastOp = "clear"
    /\ Cardinality(DOMAIN players) = 2

\* ------------------------------------------------------------------ C7
\* C7: the Disconnect key empties the players map and calls Close exactly
\* once on the session of every entry that was in it, and on no other.
C7_DisconnectAll ==
    [][\A m \in Conns :
          MasterDisconnect(m) =>
              /\ DOMAIN players' = {}
              /\ \A c \in Conns :
                    closeCalls'[c] =
                        closeCalls[c]
                        + (IF c \in Sessions(players) THEN 1 ELSE 0)]_vars

\* Disconnect-all has just closed a registered participant, once.
C7_Witness ==
    /\ lastOp = "disconnect"
    /\ DOMAIN players = {}
    /\ \E c \in Conns : pc[c] = "player" /\ closeCalls[c] = 1

\* ------------------------------------------------------------------ C8
\* C8: right after disconnect-all the reveal flag is false.
C8_DisconnectVoting == lastOp = "disconnect" => ~revealed

\* ------------------------------------------------------------------ C9
\* C9: right after the Scrum Master has gone (Quit key, or its session
\* closing) the players map is empty, the slot is free and the reveal flag
\* is false.
C9_MasterGone ==
    lastOp \in {"quit", "release"} =>
        /\ DOMAIN players = {}
        /\ masterConn = Nil
        /\ ~revealed

\* ----------------------------------------------------------------- C10
\* C10: never more than maxConnections sessions are counted in at once.
C10_GlobalCeiling == Admitted <= maxConnections

\* ----------------------------------------------------------------- C11
\* C11: never more than maxConnectionsPerIP sessions of one origin are
\* counted in at once, and a session that finds the counter of its origin
\* at the limit is refused, whatever the global counter.
C11_OriginCeiling ==
    /\ [](\A o \in Origins : AdmittedFrom(o) <= maxConnectionsPerIP)
    /\ [][\A c \in Conns :
            (pc[c] = "ipcheck" /\ pc'[c] # "ipcheck" /\ IPLimitReached(c)) =>
                /\ msg'[c] = ErrPerIP
                /\ closeCalls'[c] = closeCalls[c] + 1
                /\ pc'[c] = "uncount"]_vars

C13_Refused(c) ==
    /\ pc[c] # pc'[c]
    /\ msg'[c] \in {ErrCapacity, ErrPerIP}

C13_RejectionInert ==
    /\ [](/\ connectionCount = Admitted
          /\ \A o \in Origins : connectionsByIP[o] = AdmittedFrom(o))
    /\ [][\A c \in Conns : C13_Refused(c) => UNCHANGED registry]_vars

\* ----------------------------------------------------------------- C14
\* C14: every session that has connected is over at some point, whatever
\* its client does: the session timeout ends the ones that would stay.
C14_SessionsEnd ==
    \A c \in Conns : (pc[c] # "idle") ~> (pc[c] \in {"done", "aborted"})

\* ----------------------------------------------------------------- C15
\* C15: when the session of a participant is over without its quit key
\* (the client gone, the session closed), no entry of players holds that
\* session any more: its name can be taken again.
C15_EntryRemoved ==
    \A n \in DOMAIN players : pc[players[n].session] # "done"

\* ----------------------------------------------------------------- C16
\* C16: every key of players is a name that validatePlayerName accepts,
\* without white space around it.
C16_ValidNames ==
    \A n \in DOMAIN players :
        /\ ValidatePlayerName(Spelling(n)) = NameOk
        /\ TrimSpace(Spelling(n)) = Spelling(n)

\* ----------------------------------------------------------------- C17
\* C17: Enter on a name that is empty, that validatePlayerName refuses or
\* that is already a key of players changes neither players nor revealed
\* nor masterConn, shows an error to that session and to no other, and
\* leaves the session in the name entry.
C17_Rejected(name) ==
    \/ name = ""
    \/ ValidatePlayerName(Spelling(name)) # NameOk
    \/ NameTaken(name)

C17_RejectionKeepsEntry ==
    [][\A c \in Conns : \A name \in NameInputs :
          (NameEnter(c, name) /\ C17_Rejected(name)) =>
              /\ UNCHANGED registry
              /\ pc'[c] = "name"
              /\ msg'[c] # ""
              /\ \A d \in Conns \ {c} : msg'[d] = msg[d]]_vars

\* ----------------------------------------------------------------- C18
\* C18: validatePlayerName returns nil exactly for the names that, taken
\* from their first to their last character that is not white space, have
\* 2 to 20 characters, all of them ASCII letters, digits, spaces, hyphens
\* or underscores, and are not a reserved word in any mix of upper and
\* lower case.
C18_Trimmed(name) ==
    LET solid == {i \in 1 .. Len(name) : ~IsSpace(name[i])} IN
    IF solid = {} THEN <<>>
    ELSE SubSeq(name,
                CHOOSE i \in solid : \A j \in solid : i <= j,
                CHOOSE i \in solid : \A j \in solid : i >= j)

C18_SameLetter(a, b) ==
    \/ a = b
    \/ \E k \in 1 .. Len(LowerLetters) :
          {a, b} = {LowerLetters[k], UpperLetters[k]}

C18_Acceptable(name) ==
    LET t == C18_Trimmed(name) IN
    /\ Len(t) \in minNameLength .. maxNameLength
    /\ \A i \in 1 .. Len(t) :
          \/ t[i] \in Digits \cup {" ", "-", "_"}
          \/ \E k \in 1 .. Len(LowerLetters) :
                t[i] \in {LowerLetters[k], UpperLetters[k]}
    /\ ~\E w \in reservedNames :
          /\ Len(w) = Len(t)
          /\ \A i \in 1 .. Len(w) : C18_SameLetter(t[i], w[i])

C18_ValidateOk ==
    nameErr # "none" => (nameErr = NameOk <=> C18_Acceptable(nameArg))

\* A name of maxNameLength characters with white space around it has been
\* accepted.
C18_Witness ==
    /\ nameErr = NameOk
    /\ Len(nameArg) > maxNameLength
    /\ Len(C18_Trimmed(nameArg)) = maxNameLength

\* ----------------------------------------------------------------- C19
\* C19: the store of initPlayerView and the vote of playerView.Update, made
\* by one session, leave every entry that holds another session in the map
\* and as it was.
C19_OwnVoteOnly ==
    [][\A c \in Conns : \A n \in DOMAIN players :
          (/\ pc[c] \in {"init", "enter"}
           /\ pc'[c] # pc[c]
           /\ players[n].session # c)
              => /\ n \in DOMAIN players'
                 /\ players'[n] = players[n]]_vars

\* ----------------------------------------------------------------- C20
\* C20: while masterConn holds another session, neither the Quit key nor
\* the session close of a Scrum Master changes masterConn.
C20_StaleRelease ==
    [][\A c \in Conns :
          (/\ pc[c] \in {"quitting", "unsetting", "closing"}
           /\ pc'[c] # pc[c]
           /\ masterConn \in Conns \ {c})
              => masterConn' = masterConn]_vars

\* C21: when the countdown that was started last expires, and no clear
\* or disconnect-all came after its start, the step sets state.revealed
\* and does to gameState what the Reveal key does: the entries of
\* state.players, their votes included, and state.masterConn stay.
C21_ExpiryReveals ==
    [][\A c \in Conns :
          \A t \in pending[c] \ cleared[c] :
              (t = started[c] /\ t \notin pending'[c] /\ pc'[c] = "master")
                  => /\ revealed'
                     /\ players' = players
                     /\ masterConn' = masterConn]_vars

\* A countdown ran out over a round with a vote in it and revealed it.
C21_Witness ==
    /\ lastOp = "expire"
    /\ revealed
    /\ \E c \in Conns : pc[c] = "master" /\ started[c] = 1 /\ pending[c] = {}
    /\ \E n \in DOMAIN players : players[n].selected

\* C22: a timer key clears the round before the countdown starts: in the
\* state the key leaves, state.revealed is false, every entry has empty
\* points and selected false, and the names and their sessions are the
\* ones from before.
C22_StartClears ==
    [][\A c \in Conns :
          started'[c] > started[c]
              => /\ ~revealed'
                 /\ DOMAIN players' = DOMAIN players
                 /\ \A n \in DOMAIN players :
                        /\ players'[n].points = ""
                        /\ ~players'[n].selected
                        /\ players'[n].session = players[n].session]_vars

\* A countdown was started over a revealed round: the participant is still
\* registered, the vote is gone.
C22_Witness ==
    /\ lastOp = "start"
    /\ \E c \in Conns : started[c] = 2 /\ pending[c] = {2}
    /\ \E n \in DOMAIN players : pc[players[n].session] = "player"

\* C23: calculateStatistics returns the same average, median and
\* distribution on every permutation of a list.
C23_Permuted(p) == [i \in 1 .. Len(votes) |-> votes[p[i]]]

C24_Numeric == {i \in 1 .. Len(votes) : ParseFloat(votes[i])[2] = "nil"}

C24_Value(i) == ParseFloat(votes[i])[1]

\* The k-th smallest of the numbers: fewer than k numbers are below it and
\* at least k are not above it.
C24_Kth(k) ==
    CHOOSE v \in {C24_Value(i) : i \in C24_Numeric} :
        /\ Cardinality({i \in C24_Numeric : C24_Value(i) < v}) < k
        /\ Cardinality({i \in C24_Numeric : C24_Value(i) <= v}) >= k

\* C24: the median is "N/A" when the list holds no number; otherwise it is
\* a number with one decimal, the nearest to the middle one of the numbers
\* in ascending order, or to the mean of the two middle ones when their
\* count is even; 2, 3, 5, 8 gives "4.0".
C24_Median ==
    stats # <<>>
        => /\ C24_Numeric = {} => stats[2] = "N/A"
           /\ C24_Numeric # {} =>
                  LET n == Cardinality(C24_Numeric)
                      low == C24_Kth((n + 1) \div 2)
                      high == C24_Kth((n \div 2) + 1)
                  IN  \E whole \in 0 .. 8, tenth \in 0 .. 9 :
                          /\ stats[2] = ToString(whole) \o "."
                                            \o ToString(tenth)
                          /\ 8 * (10 * whole + tenth) - 10 * (low + high)
                                 \in -4 .. 4
           /\ votes = <<"2", "3", "5", "8">> => stats[2] = "4.0"

\* The call on 2, 3, 5, 8 returned 4.0.
C24_Witness ==
    /\ votes = <<"2", "3", "5", "8">>
    /\ stats # <<>>
    /\ stats[2] = "4.0"

\* The list without the points that are no numbers.
C25_IsNumber(p) == ParseFloat(p)[2] = "nil"

C25_NumbersOnly == SelectSeq(votes, C25_IsNumber)

\* C25: the average is the sum of the numbers of the list divided by
\* their count, 0 when there is none; a point that is no number changes
\* neither the average nor the median.
C25_Average ==
    stats # <<>>
        => LET n == Len(C25_NumbersOnly)
               total == Sum([i \in 1 .. n |->
                                ParseFloat(C25_NumbersOnly[i])[1]], 1 .. n)
           IN  /\ n = 0 => stats[1][1] = 0
               /\ stats[1][2] > 0
               /\ stats[1][1] * 4 * n = total * stats[1][2]
               /\ CalculateStatistics(C25_NumbersOnly)[1] = stats[1]
               /\ CalculateStatistics(C25_NumbersOnly)[2] = stats[2]

\* The call on 1, ?, 2, 5 returned the average 8/3 and the median 2.0.
C25_Witness ==
    /\ votes = <<"1", "?", "2", "5">>
    /\ stats # <<>>
    /\ stats[1] = <<8, 3>>
    /\ stats[2] = "2.0"

\* C26: the keys of the distribution are the points that occur in the
\* list, as they are spelled; each one maps to the number of its
\* occurrences, and the counts add up to the length of the list.
C26_Distribution ==
    stats # <<>>
        => /\ DOMAIN stats[3] = Range(votes)
           /\ \A p \in Range(votes) :
                  stats[3][p] =
                      Cardinality({i \in 1 .. Len(votes) : votes[i] = p})
           /\ Sum(stats[3], DOMAIN stats[3]) = Len(votes)

\* "1" twice, "1.0" once and a "?": three keys.
C26_Witness ==
    /\ votes = <<"1", "1.0", "?", "1">>
    /\ stats # <<>>
    /\ stats[3]["1"] = 2
    /\ stats[3]["1.0"] = 1
    /\ Cardinality(DOMAIN stats[3]) = 3

\* Where a handler is about to write to gameState, or is between two of
\* its writes, and where it is reading it.
C27_Writes(c) ==
    pc[c] \in {"claiming", "storing", "voting", "marking", "deleting",
               "revealing", "clearing", "disconnecting", "releasing",
               "quitting", "unsetting"}

C27_Reads(c) == pc[c] \in {"lookup", "reading", "rendering"}

\* C27: a handler that writes to state.players, state.revealed or
\* state.masterConn holds the write lock of state.mu, one that reads holds
\* a read lock, and no handler writes while another one writes or reads;
\* the Quit key and pokerHandler's claim are among them.
C27_LockHeld ==
    \A c \in Conns :
        /\ C27_Writes(c) => mu.writer = c
        /\ C27_Reads(c) => c \in mu.readers
        /\ C27_Writes(c) =>
               \A d \in Conns \ {c} : ~C27_Writes(d) /\ ~C27_Reads(d)

\* C28: a step that closes sessions or writes reset sequences to them is
\* never the step of a handler that holds the write lock of state.mu.
C28_NoIOUnderLock ==
    [][\A c \in Conns :
          (pc'[c] # pc[c] /\ closeCalls' # closeCalls) => mu.writer # c]_vars

\* C30: whenever nobody holds the write lock, every entry of state.players
\* has selected true exactly when its points are not empty, whatever
\* reveal or clear the vote ran into.
C30_VoteWhole ==
    mu.writer = Nil
        => \A n \in DOMAIN players :
               players[n].selected <=> players[n].points # ""

\* A vote that was written after the round had been revealed, seen under a
\* read lock.
C30_Witness ==
    /\ lastOp = "vote"
    /\ revealed
    /\ mu.writer = Nil
    /\ mu.readers # {}
    /\ \E n \in DOMAIN players :
           players[n].selected /\ players[n].points # ""

\* C29: connectionLimitMiddleware decides before pokerHandler and the views
\* run: a session it has refused holds no state.masterConn and no entry
\* of state.players, because it never got as far as taking one.
C29_AdmissionFirst ==
    \A c \in Conns :
        msg[c] \in {ErrCapacity, ErrPerIP}
            => /\ masterConn # c
               /\ c \notin Sessions(players)

\* C39: a step in which the timerExpiredMsg of a countdown is handled and
\* state.revealed is set is a step of a Scrum Master that has not quit:
\* once the program that started the countdown has handled its Quit key,
\* or its session is over, the countdown sets nothing any more.
C39_ExpiryOfConnected ==
    [][\A c \in Conns :
          (/\ pending'[c] # pending[c]
           /\ pending'[c] \subseteq pending[c]
           /\ pc'[c] = pc[c]
           /\ revealed')
              => pc[c] = "master"]_vars

\* C31: state.revealed goes from false to true in the step of a Reveal key
\* or of a timerExpiredMsg and in no other: not in a registration, a
\* vote or a quit of a participant, not in connectionLimitMiddleware or
\* sessionCloseMiddleware.  (A tickMsg changes nothing at all and is no
\* step.)
C31_RevealedBy ==
    [][(~revealed /\ revealed')
          => \E c \in Conns :
                 \/ MasterReveal(c)
                 \/ \E t \in 1 .. MaxTimers : TimerExpired(c, t)]_vars

\* The Reveal key has revealed a round with a vote in it.
C31_Witness ==
    /\ lastOp = "reveal"
    /\ revealed
    /\ \E n \in DOMAIN players : players[n].selected

\* C32: the Clear key leaves the names, their sessions and
\* state.masterConn as they are, and what it leaves is what a second Clear
\* would leave: revealed false and every entry already reset.
C32_ClearKeeps ==
    [][\A m \in Conns :
          MasterClear(m)
              => /\ DOMAIN players' = DOMAIN players
                 /\ \A n \in DOMAIN players :
                        players'[n].session = players[n].session
                 /\ masterConn' = masterConn
                 /\ ~revealed'
                 /\ ClearedPlayers(players') = players']_vars

\* The Scrum Master has cleared a round and its participant is still
\* registered.
C32_Witness ==
    /\ lastOp = "clear"
    /\ \E m \in Conns : pc[m] = "master" /\ masterConn = m
    /\ \E n \in DOMAIN players : pc[players[n].session] = "player"

\* C33: a quit key of a participant whose name is not in state.players
\* (a disconnect-all or a quit has removed it) changes nothing in
\* gameState.
C33_AbsentRemoval ==
    [][\A c \in Conns :
          (PlayerQuit(c) /\ pname[c] \notin DOMAIN players)
              => UNCHANGED registry]_vars

\* A participant that the Disconnect key had removed is gone, and the
\* participant that registered after the Disconnect key is still there.
C33_Witness ==
    /\ \E c \in Conns :
          /\ pc[c] = "ended"
          /\ closeCalls[c] = 1
          /\ ~cred[c]
    /\ \E n \in DOMAIN players :
          /\ closeCalls[players[n].session] = 0
          /\ pc[players[n].session] = "player"

\* C34: initPlayerView adds one entry to state.players, under a name that
\* was not there, with empty points and selected false; it changes no
\* other entry, nor state.revealed, nor state.masterConn.
C34_RegistrationAdds ==
    [][\A c \in Conns :
          InitPlayerView(c)
              => /\ pname[c] \notin DOMAIN players
                 /\ DOMAIN players' = DOMAIN players \cup {pname[c]}
                 /\ players'[pname[c]] = NewPlayerState(c)
                 /\ \A n \in DOMAIN players : players'[n] = players[n]
                 /\ revealed' = revealed
                 /\ masterConn' = masterConn]_vars

\* C36: a quit key of a participant removes no entry that holds the
\* session of somebody else.
C36_OwnEntryOnly ==
    [][\A c \in Conns :
          PlayerQuit(c)
              => \A n \in DOMAIN players \ DOMAIN players' :
                     players[n].session = c]_vars

\* C37: an "enter" handled for a name that is not in state.players any
\* more changes nothing in gameState: no entry comes back and no vote is
\* stored.
C37_AbsentVote ==
    [][\A c \in Conns :
          (PlayerVote(c) /\ pname[c] \notin DOMAIN players)
              => UNCHANGED registry]_vars

\* A participant is about to store its vote and its name has been
\* removed since it pressed "enter".
C37_Witness ==
    \E c \in Conns :
        /\ pc[c] = "enter"
        /\ pname[c] \notin DOMAIN players
        /\ sel[c] \in pointOptions

\* C38: state.players never holds more than maxPlayers entries.
C38_PlayerCeiling == Cardinality(DOMAIN players) <= maxPlayers

\* Where a handler is between Lock and Unlock, and between RLock and
\* RUnlock.
C35_WriteSection ==
    {"claiming", "storing", "voting", "marking", "deleting", "revealing",
     "clearing", "disconnecting", "disconnected", "releasing"}

C35_ReadSection == {"lookup", "reading", "rendering"}

====
